---- MODULE Spec2Model ----
(***************************************************************************)
(* Model of the media relay of src/server.js: the Record Store (the Media  *)
(* collection), the Asset Origin (Cloudinary), and the handlers            *)
(*   GET /cdn/:publicId, POST /upload, DELETE /api/media/:id,              *)
(*   GET /api/stats.                                                       *)
(*                                                                         *)
(* Strings are sequences of tokens ("/" and "%2F" are tokens of their own),*)
(* so that template literals are concatenations, startsWith is a prefix    *)
(* test and the route pattern is matched on the path's segments.           *)
(* A value that may be undefined is a record [def, s].                     *)
(*                                                                         *)
(* Requests are served one at a time: a handler's awaits are separate      *)
(* steps (the outcome of each awaited call is chosen when it returns), but *)
(* no second request starts while one is in flight.                        *)
(***************************************************************************)
EXTENDS Naturals, Sequences, FiniteSets

\* ---------------------------------------------------------------- bounds
\* Number of `new Media(...)` documents the model lets POST /upload build.
MaxUploads == 2
\* Longest upstream body, in chunks.
MaxChunks == 2

\* ------------------------------------------------------- values, strings
Undefined == [def |-> FALSE, s |-> <<>>]

Str(s) == [def |-> TRUE, s |-> s]

\* JavaScript truthiness of a string-or-undefined value: undefined and the
\* empty string are falsy, every other string (also "0") is truthy.
Truthy(v) == v.def /\ v.s # <<>>

\* a || b
OrElse(v, d) == IF Truthy(v) THEN v.s ELSE d

\* const { q = 'auto' } = ...: the default applies to undefined only.
DefaultTo(v, d) == IF v.def THEN v.s ELSE d

StartsWith(s, p) == Len(s) >= Len(p) /\ SubSeq(s, 1, Len(p)) = p

RECURSIVE Join(_, _)
\* Array.prototype.join
Join(parts, sep) ==
  IF parts = <<>> THEN <<>>
  ELSE IF Len(parts) = 1 THEN parts[1]
  ELSE parts[1] \o <<sep>> \o Join(Tail(parts), sep)

\* decodeURIComponent, on the one escape the model's paths use.
DecodeURIComponent(s) == [i \in 1..Len(s) |-> IF s[i] = "%2F" THEN "/" ELSE s[i]]

\* ------------------------------------------------------------ the router
\* Express compiles '/cdn/:publicId' to ^\/cdn\/(?:([^\/]+?))\/?$ : one
\* non-empty segment without a slash, an optional trailing slash.
CdnParamRaw(path) ==
  IF Len(path) >= 5 /\ path[Len(path)] = "/"
  THEN SubSeq(path, 4, Len(path) - 1)
  ELSE SubSeq(path, 4, Len(path))

CdnRouteMatches(path) ==
  /\ Len(path) >= 4
  /\ SubSeq(path, 1, 3) = <<"/", "cdn", "/">>
  /\ CdnParamRaw(path) # <<>>
  /\ \A i \in 1..Len(CdnParamRaw(path)) : CdnParamRaw(path)[i] # "/"

\* req.params.publicId
CdnParam(path) == DecodeURIComponent(CdnParamRaw(path))

\* --------------------------------------------------- the URL of the origin
CloudName == "CLOUDINARY_CLOUD_NAME"

BaseUrl(isVideo) ==
  <<"https://res.cloudinary.com/", CloudName>>
    \o (IF isVideo THEN <<"/video/upload/">> ELSE <<"/image/upload/">>)

\* Variant: the quality directive is pushed before the width directive.
TransformationsSwapped(w, q, f) ==
  <<<<"q_">> \o DefaultTo(q, <<"auto">>)>>
    \o (IF Truthy(w) THEN <<<<"w_">> \o w.s>> ELSE <<>>)
    \o <<<<"f_">> \o OrElse(f, <<"auto">>)>>

\* The transformations array after its three pushes.
Transformations(w, q, f) ==
  (IF Truthy(w) THEN <<<<"w_">> \o w.s>> ELSE <<>>)
    \o <<<<"q_">> \o DefaultTo(q, <<"auto">>)>>
    \o <<<<"f_">> \o OrElse(f, <<"auto">>)>>

FullUrl(isVideo, w, q, f, publicId) ==
  BaseUrl(isVideo) \o Join(Transformations(w, q, f), ",") \o <<"/">> \o publicId

\* ------------------------------------------------------------- the state
VARIABLES
  media,    \* the Media collection, in natural (insertion) order
  cloud,    \* the assets held by the origin: [publicId, resourceType]
  nextId,   \* the _id the next `new Media(...)` gets
  req       \* the request in flight, or the last one served

vars == <<media, cloud, nextId, req>>

Idle == [kind |-> "idle", phase |-> "done"]

\* No handler is between two awaits.
NoneInFlight == req.phase \in {"done", "aborted"}

\* The server takes the next request.
Ready == req = Idle

\* An Express response before anything was set: statusCode 200, no header
\* set by the handler, nothing written, not ended; `destroyed` is the
\* connection torn down by the server, which no handler ever does.
NewRes ==
  [status |-> 200, headers |-> {}, sent |-> <<>>, text |-> <<>>, ended |-> FALSE,
   destroyed |-> FALSE]

\* res.set(name, value)
SetHeader(res, name, value) ==
  [res EXCEPT !.headers = {h \in @ : h[1] # name} \cup {<<name, value>>}]

\* ------------------------------------------------------- the Record Store
\* The documents Media.findOne({ publicId }) may resolve to: without a sort,
\* any matching document.
FindOneMatches(publicId) == {i \in 1..Len(media) : media[i].publicId = publicId}

\* Media.findById(id): the position of the document, 0 for null.
FindById(id) ==
  IF \E i \in 1..Len(media) : media[i].id = id
  THEN CHOOSE i \in 1..Len(media) : media[i].id = id
  ELSE 0

RECURSIVE Without(_, _)
\* The collection after findByIdAndDelete(id).
Without(docs, id) ==
  IF docs = <<>> THEN <<>>
  ELSE IF Head(docs).id = id THEN Tail(docs)
  ELSE <<Head(docs)>> \o Without(Tail(docs), id)

\* Media.countDocuments(filter)
CountDocuments(docs, types) == Cardinality({i \in 1..Len(docs) : docs[i].resourceType \in types})

RECURSIVE SumSize(_)
\* Media.aggregate([{ $group: { _id: null, total: { $sum: '$size' } } }])
SumSize(docs) == IF docs = <<>> THEN 0 ELSE Head(docs).size + SumSize(Tail(docs))

\* The body of GET /api/stats.
Stats(docs) ==
  [totalMedia  |-> CountDocuments(docs, {"image", "video"}),
   totalImages |-> CountDocuments(docs, {"image"}),
   totalVideos |-> CountDocuments(docs, {"video"}),
   totalSize   |-> SumSize(docs)]

\* ------------------------------------------------------------ the inputs
\* The files a client posts: name, mimetype, size in bytes.
Files ==
  {[originalname |-> <<"a", ".png">>, mimetype |-> <<"image/", "png">>,  size |-> 1],
   [originalname |-> <<"a", ".mp4">>, mimetype |-> <<"video/", "mp4">>,  size |-> 2],
   [originalname |-> <<"b", ".png">>, mimetype |-> <<"image/", "png">>,  size |-> 2],
   [originalname |-> <<"n", ".txt">>, mimetype |-> <<"text/", "plain">>, size |-> 1]}

\* The paths of the GET requests a client sends: an identifier without a
\* folder, the path POST /upload returns for uploadsx/a, and the same with the
\* slash of the identifier escaped.
Paths ==
  {<<"/", "cdn", "/", "vid9">>,
   <<"/", "cdn", "/", "uploadsx", "/", "a">>,
   <<"/", "cdn", "/", "uploadsx", "%2F", "a">>,
   <<"/", "cdn", "/", "uploadsx", "%2F", "b", "/">>}

Widths ==
  {Undefined, Str(<<>>), Str(<<"400">>), Str(<<"0">>), Str(<<"-5">>), Str(<<"abc">>),
   Str(<<"1", ",", "2">>)}

Qualities == {Undefined, Str(<<>>), Str(<<"60">>)}

Formats == {Undefined, Str(<<>>), Str(<<"webp">>)}

\* What the origin's response carries in content-type: no header, an empty
\* one, a type.
ContentTypes == {Undefined, Str(<<>>), Str(<<"image/png">>), Str(<<"video/mp4">>)}

\* An upstream body of n chunks.
Body(n) == [i \in 1..n |-> i]

Init ==
  /\ media = <<>>
  /\ cloud = {}
  /\ nextId = 1
  /\ req = Idle

\* ------------------------------------------------- GET /cdn/:publicId
\* What isVideo may evaluate to: false without a lookup when the identifier
\* does not start with 'uploadsx/', otherwise the kind of the document
\* findOne resolves to (false for null).
IsVideoValues(publicId) ==
  IF ~StartsWith(publicId, <<"uploadsx", "/">>) THEN {FALSE}
  ELSE IF FindOneMatches(publicId) = {} THEN {FALSE}
  ELSE {media[i].resourceType = "video" : i \in FindOneMatches(publicId)}

\* Variant: the catch block answers 500.
CatchResponseWith500(res) ==
  [res EXCEPT !.status = 500, !.text = <<"Fayl topilmadi yoki xatolik yuz berdi">>,
              !.ended = TRUE]

\* The catch block: res.status(404).send(...)
CatchResponse(res) ==
  [res EXCEPT !.status = 404, !.text = <<"Fayl topilmadi yoki xatolik yuz berdi">>,
              !.ended = TRUE]

\* Variant: the upstream header is ignored.
ContentTypeByKindOnly(header, isVideo) ==
  IF isVideo THEN <<"video/mp4">> ELSE <<"image/jpeg">>

\* response.headers.get('content-type') || (isVideo ? 'video/mp4' : 'image/jpeg')
ContentType(header, isVideo) ==
  OrElse(header, IF isVideo THEN <<"video/mp4">> ELSE <<"image/jpeg">>)

\* The three res.set calls.
SuccessHeaders(res, contentType) ==
  SetHeader(
    SetHeader(
      SetHeader(res, "Content-Type", contentType),
      "Cache-Control", <<"public, max-age=31536000, immutable">>),
    "Access-Control-Allow-Origin", <<"*">>)

\* A request no route of the application matches: Express answers 404.
NoRoute(path) ==
  /\ ~CdnRouteMatches(path)
  /\ req' = [kind |-> "noroute", phase |-> "done", path |-> path,
             res |-> [NewRes EXCEPT !.status = 404, !.text = <<"Cannot GET">>,
                                    !.ended = TRUE]]
  /\ UNCHANGED <<media, cloud, nextId>>

\* The handler up to `await fetch(fullUrl)`: the lookup resolved.
\* `fetches` counts the requests sent to the origin, `cause` (in the later
\* phases) names the await that failed.
CdnFetch(path, w, q, f) ==
  /\ CdnRouteMatches(path)
  /\ \E isVideo \in IsVideoValues(CdnParam(path)) :
       req' = [kind |-> "cdn", phase |-> "fetching", publicId |-> CdnParam(path),
               w |-> w, q |-> DefaultTo(q, <<"auto">>), qGiven |-> q.def, f |-> f,
               isVideo |-> isVideo,
               fullUrl |-> FullUrl(isVideo, w, q, f, CdnParam(path)),
               fetches |-> 1, res |-> NewRes]
  /\ UNCHANGED <<media, cloud, nextId>>

\* The handler when Media.findOne rejects: the catch block, no fetch.
CdnLookupFails(path) ==
  /\ CdnRouteMatches(path)
  /\ StartsWith(CdnParam(path), <<"uploadsx", "/">>)
  /\ req' = [kind |-> "cdn", phase |-> "done", cause |-> "lookup", isVideo |-> FALSE,
             up |-> [ok |-> FALSE, status |-> 0, ct |-> Undefined, body |-> <<>>],
             fetches |-> 0, res |-> CatchResponse(NewRes)]
  /\ UNCHANGED <<media, cloud, nextId>>

\* GET path?w=&q=&f=
Get(path, w, q, f) ==
  /\ Ready
  /\ \/ NoRoute(path)
     \/ CdnFetch(path, w, q, f)
     \/ CdnLookupFails(path)

\* The answers of the origin: the fetch rejects (status 0), a non-success
\* status, or a success with a content-type and a body.
Answers ==
  {[ok |-> FALSE, status |-> st, ct |-> Undefined, body |-> <<>>] : st \in {0, 404, 500}}
    \cup {[ok |-> TRUE, status |-> 200, ct |-> ct, body |-> Body(n)] :
            ct \in ContentTypes, n \in 0..MaxChunks}

\* `await fetch` returns or throws; on !response.ok the handler throws.
CdnAnswer ==
  /\ req.kind = "cdn" /\ req.phase = "fetching"
  /\ \E up \in Answers :
       req' = IF up.ok
              THEN [kind |-> "cdn", phase |-> "streaming", cause |-> "none",
                    isVideo |-> req.isVideo, up |-> up, fetches |-> req.fetches,
                    res |-> SuccessHeaders(req.res, ContentType(up.ct, req.isVideo))]
              ELSE [kind |-> "cdn", phase |-> "done", cause |-> "upstream",
                    isVideo |-> req.isVideo, up |-> up, fetches |-> req.fetches,
                    res |-> CatchResponse(req.res)]
  /\ UNCHANGED <<media, cloud, nextId>>

\* pipe: a 'data' event of response.body is written to res.
PipeChunk(res, chunk) == [res EXCEPT !.sent = Append(@, chunk)]

CdnChunk ==
  /\ req.kind = "cdn" /\ req.phase = "streaming"
  /\ Len(req.res.sent) < Len(req.up.body)
  /\ req' = [req EXCEPT !.res = PipeChunk(@, req.up.body[Len(req.res.sent) + 1])]
  /\ UNCHANGED <<media, cloud, nextId>>

\* pipe: the 'end' event of response.body ends res.
CdnEnd ==
  /\ req.kind = "cdn" /\ req.phase = "streaming"
  /\ Len(req.res.sent) = Len(req.up.body)
  /\ req' = [req EXCEPT !.phase = "done", !.res.ended = TRUE]
  /\ UNCHANGED <<media, cloud, nextId>>

\* The upstream connection breaks before the body ended: response.body
\* emits 'error'. pipe() listens to 'data' and 'end' of its source only, the
\* handler has returned and registered nothing: res is neither ended nor
\* destroyed.
CdnStreamError ==
  /\ req.kind = "cdn" /\ req.phase = "streaming"
  /\ Len(req.res.sent) < Len(req.up.body)
  /\ req' = [req EXCEPT !.phase = "aborted", !.cause = "stream"]
  /\ UNCHANGED <<media, cloud, nextId>>

CdnStep == CdnAnswer \/ CdnChunk \/ CdnEnd \/ CdnStreamError

\* ------------------------------------------------------- POST /upload
\* multer's fileFilter
FileFilter(file) ==
  StartsWith(file.mimetype, <<"image/">>) \/ StartsWith(file.mimetype, <<"video/">>)

ResourceType(file) == IF StartsWith(file.mimetype, <<"video/">>) THEN "video" ELSE "image"

\* result.public_id under uploadOptions: the folder, and the file's name as
\* it is (use_filename: true, unique_filename: false).
PublicId(file) == <<"uploadsx", "/", Head(file.originalname)>>

\* result.secure_url: the origin's direct link.
SecureUrl(file) == BaseUrl(ResourceType(file) = "video") \o <<"v1", "/">> \o PublicId(file)

\* proxyUrl
ProxyUrl(publicId) == <<"/", "cdn", "/">> \o publicId

JsonError(status) == [status |-> status, success |-> FALSE, url |-> <<>>, type |-> ""]

\* No file field: 400.
UploadNoFile ==
  /\ req' = [kind |-> "upload", phase |-> "done", cause |-> "nofile", res |-> JsonError(400)]
  /\ UNCHANGED <<media, cloud, nextId>>

\* multer passes the filter's error on: the handler is not called, Express's
\* error handler answers 500.
UploadFiltered(file) ==
  /\ ~FileFilter(file)
  /\ req' = [kind |-> "upload", phase |-> "done", cause |-> "filter", res |-> JsonError(500)]
  /\ UNCHANGED <<media, cloud, nextId>>

\* The handler up to the await of upload_stream.
UploadStart(file) ==
  /\ FileFilter(file)
  /\ nextId <= MaxUploads
  /\ req' = [kind |-> "upload", phase |-> "uploading", file |-> file]
  /\ UNCHANGED <<media, cloud, nextId>>

Upload(file) ==
  /\ Ready
  /\ \/ UploadFiltered(file)
     \/ UploadStart(file)

\* upload_stream called back with a result (overwrite: true): `new Media`.
UploadStored ==
  /\ req.kind = "upload" /\ req.phase = "uploading"
  /\ cloud' = cloud \cup {[publicId |-> PublicId(req.file), resourceType |-> ResourceType(req.file)]}
  /\ nextId' = nextId + 1
  /\ req' = [kind |-> "upload", phase |-> "saving",
             doc |-> [id |-> nextId, publicId |-> PublicId(req.file),
                      originalName |-> req.file.originalname,
                      secureUrl |-> SecureUrl(req.file),
                      resourceType |-> ResourceType(req.file),
                      size |-> req.file.size]]
  /\ UNCHANGED media

\* upload_stream called back with an error: the catch block.
UploadOriginFails ==
  /\ req.kind = "upload" /\ req.phase = "uploading"
  /\ req' = [kind |-> "upload", phase |-> "done", cause |-> "origin", res |-> JsonError(500)]
  /\ UNCHANGED <<media, cloud, nextId>>

\* newMedia.save() resolved: res.json({ success, url: proxyUrl, type }).
UploadSaved ==
  /\ req.kind = "upload" /\ req.phase = "saving"
  /\ media' = Append(media, req.doc)
  /\ req' = [kind |-> "upload", phase |-> "done", cause |-> "none",
             res |-> [status |-> 200, success |-> TRUE,
                      url |-> ProxyUrl(req.doc.publicId), type |-> req.doc.resourceType]]
  /\ UNCHANGED <<cloud, nextId>>

\* newMedia.save() rejected: the catch block.
UploadSaveFails ==
  /\ req.kind = "upload" /\ req.phase = "saving"
  /\ req' = [kind |-> "upload", phase |-> "done", cause |-> "save", res |-> JsonError(500)]
  /\ UNCHANGED <<media, cloud, nextId>>

\* ------------------------------------------------ DELETE /api/media/:id
AssetOf(doc) == [publicId |-> doc.publicId, resourceType |-> doc.resourceType]

\* Variant: destroy without resource_type removes the identifier's assets of
\* every kind.
DestroyEveryType(assets, doc) == {a \in assets : a.publicId # doc.publicId}

\* The origin after cloudinary.uploader.destroy(publicId, { resource_type }).
Destroy(assets, doc) == assets \ {AssetOf(doc)}

\* findById resolved: null answers 404, a document goes on to destroy.
\* `before` records the store and the origin as the request found them.
DeleteFind(id) ==
  /\ Ready
  /\ req' = IF FindById(id) = 0
            THEN [kind |-> "delete", phase |-> "done", id |-> id, cause |-> "null",
                  before |-> [media |-> media, cloud |-> cloud], status |-> 404]
            ELSE [kind |-> "delete", phase |-> "destroying", id |-> id, cause |-> "none",
                  doc |-> media[FindById(id)],
                  before |-> [media |-> media, cloud |-> cloud], status |-> 200]
  /\ UNCHANGED <<media, cloud, nextId>>

\* findById rejected: the catch block.
DeleteFindFails(id) ==
  /\ Ready
  /\ req' = [kind |-> "delete", phase |-> "done", id |-> id, cause |-> "find",
             before |-> [media |-> media, cloud |-> cloud], status |-> 500]
  /\ UNCHANGED <<media, cloud, nextId>>

\* destroy resolved (also when the origin holds no such asset).
DeleteDestroyed ==
  /\ req.kind = "delete" /\ req.phase = "destroying"
  /\ cloud' = Destroy(cloud, req.doc)
  /\ req' = [req EXCEPT !.phase = "removing"]
  /\ UNCHANGED <<media, nextId>>

\* destroy rejected: the catch block.
DeleteDestroyFails ==
  /\ req.kind = "delete" /\ req.phase = "destroying"
  /\ req' = [req EXCEPT !.phase = "done", !.cause = "destroy", !.status = 500]
  /\ UNCHANGED <<media, cloud, nextId>>

\* findByIdAndDelete resolved: res.json({ success: true }).
DeleteRemoved ==
  /\ req.kind = "delete" /\ req.phase = "removing"
  /\ media' = Without(media, req.id)
  /\ req' = [req EXCEPT !.phase = "done"]
  /\ UNCHANGED <<cloud, nextId>>

\* findByIdAndDelete rejected: the catch block.
DeleteRemoveFails ==
  /\ req.kind = "delete" /\ req.phase = "removing"
  /\ req' = [req EXCEPT !.phase = "done", !.cause = "remove", !.status = 500]
  /\ UNCHANGED <<media, cloud, nextId>>

\* ------------------------------------------------------- GET /api/stats
GetStats ==
  /\ Ready
  /\ req' = [kind |-> "stats", phase |-> "done", status |-> 200, json |-> Stats(media)]
  /\ UNCHANGED <<media, cloud, nextId>>

\* One of the counts or the aggregate rejected: the catch block.
GetStatsFails ==
  /\ Ready
  /\ req' = [kind |-> "stats", phase |-> "done", status |-> 500, json |-> Stats(<<>>)]
  /\ UNCHANGED <<media, cloud, nextId>>

\* The served request leaves the state; a request left open by a broken
\* upstream stream stays open at the client, the server goes on.
Forget ==
  /\ NoneInFlight /\ req # Idle
  /\ req' = Idle
  /\ UNCHANGED <<media, cloud, nextId>>

\* ------------------------------------------------------ the specification
Next ==
  \/ \E path \in Paths, w \in Widths, q \in Qualities, f \in Formats : Get(path, w, q, f)
  \/ CdnStep
  \/ Ready /\ UploadNoFile
  \/ \E file \in Files : Upload(file)
  \/ UploadStored
  \/ UploadOriginFails
  \/ UploadSaved
  \/ UploadSaveFails
  \/ \E id \in 1..MaxUploads : DeleteFind(id) \/ DeleteFindFails(id)
  \/ DeleteDestroyed
  \/ DeleteDestroyFails
  \/ DeleteRemoved
  \/ DeleteRemoveFails
  \/ GetStats
  \/ GetStatsFails
  \/ Forget

Spec == Init /\ [][Next]_vars

\* ================================================================ claims
\* The part of an upstream URL between .../upload/ and /<identifier>.
TransformSegment(url, publicId) == SubSeq(url, 4, Len(url) - Len(publicId) - 1)

QualityValues == {v.s : v \in {q \in Qualities : q.def}} \cup {<<"auto">>}

FormatValues == {v.s : v \in {f \in Formats : f.def}} \cup {<<"auto">>}

Building == req.kind = "cdn" /\ req.phase = "fetching"

\* C1: the transform segment of the upstream URL is [w_<w>,]q_<q>,f_<f> in
\* this order: the width directive is there only when w was supplied (and is
\* there for every non-empty w), the quality directive is q_auto when q is
\* absent, the format directive is f_auto when f is absent, and the URL ends
\* with /<transform-segment>/<identifier>.
C1_TransformSegment ==
  Building =>
    LET url  == req.fullUrl
        seg  == TransformSegment(url, req.publicId)
        wDir == <<"w_">> \o req.w.s \o <<",">>
        hasW == StartsWith(seg, <<"w_">>)
        rest == IF hasW THEN SubSeq(seg, Len(wDir) + 1, Len(seg)) ELSE seg
    IN  /\ url[3] \in {"/image/upload/", "/video/upload/"}
        /\ SubSeq(url, 4, Len(url)) = seg \o <<"/">> \o req.publicId
        /\ hasW => req.w.def /\ StartsWith(seg, wDir)
        /\ Truthy(req.w) => hasW
        /\ \E qv \in QualityValues, fv \in FormatValues :
             /\ rest = <<"q_">> \o qv \o <<",", "f_">> \o fv
             /\ ~req.qGiven => qv = <<"auto">>
             /\ req.qGiven => qv = req.q
             /\ ~req.f.def => fv = <<"auto">>

\* C1 witness: GET /cdn/vid9?w=400&q=60&f=webp has built
\* .../image/upload/w_400,q_60,f_webp/vid9.
C1_Witness ==
  /\ Building
  /\ req.w = Str(<<"400">>) /\ req.qGiven /\ req.f = Str(<<"webp">>)
  /\ req.fullUrl = <<"https://res.cloudinary.com/", CloudName, "/image/upload/",
                     "w_", "400", ",", "q_", "60", ",", "f_", "webp", "/", "vid9">>

AssetHeaders == {"Content-Type", "Cache-Control", "Access-Control-Allow-Origin"}

UpstreamFailed ==
  req.kind = "cdn" /\ req.phase = "done" /\ req.cause = "upstream"

\* C2: when the origin answers with a non-success status or the fetch fails,
\* the response is 404 with the text body, ended, and no asset byte and none
\* of the asset's headers was written.
C2_UpstreamFailure404 ==
  UpstreamFailed =>
    /\ ~req.up.ok
    /\ req.res.status = 404
    /\ req.res.text # <<>>
    /\ req.res.ended
    /\ req.res.sent = <<>>
    /\ \A h \in req.res.headers : h[1] \notin AssetHeaders

\* C2 witness: the origin answered 404 and the client got the 404.
C2_Witness ==
  UpstreamFailed /\ req.up.status = 404 /\ req.res.status = 404 /\ req.res.ended

PositiveIntegerStrings == {<<"400">>}

\* A width that was given a value which is not a positive integer: zero,
\* negative, not a number, not an integer.
InvalidWidth(w) == w.def /\ w.s # <<>> /\ w.s \notin PositiveIntegerStrings

\* C3: a request whose w is present and not a positive integer is answered
\* 400 and no upstream fetch is issued for it.
C3_InvalidWidthRejected ==
  (req.kind = "cdn" /\ req.phase = "fetching" /\ InvalidWidth(req.w))
    => req.res.status = 400 /\ req.fetches = 0

KindSegment(url) == url[3]

StoredAs(publicId, type) ==
  \E i \in 1..Len(media) : media[i].publicId = publicId /\ media[i].resourceType = type

\* C4: the path segment of the upstream URL follows the Record Store: a
\* record of the identifier with kind video gives /video/upload/, one with
\* kind image gives /image/upload/, no record gives /image/upload/.
C4_KindFromStore ==
  Building =>
    /\ StoredAs(req.publicId, "video") => KindSegment(req.fullUrl) = "/video/upload/"
    /\ StoredAs(req.publicId, "image") => KindSegment(req.fullUrl) = "/image/upload/"
    /\ (~StoredAs(req.publicId, "video") /\ ~StoredAs(req.publicId, "image"))
         => KindSegment(req.fullUrl) = "/image/upload/"

Answered ==
  req.kind = "cdn" /\ req.phase \in {"streaming", "done", "aborted"} /\ req.up.ok

HeaderIs(res, name, value) ==
  /\ <<name, value>> \in res.headers
  /\ \A h \in res.headers : h[1] = name => h[2] = value

KindDefault(isVideo) == IF isVideo THEN <<"video/mp4">> ELSE <<"image/jpeg">>

\* What a success response carries besides Content-Type: status 200, the
\* cache and cross-origin headers, set from before the first byte on, and
\* the chunks the origin delivered so far, unchanged and in order; the whole
\* body once the response is ended.
StreamsUpstreamBody ==
  /\ req.res.status = 200
  /\ HeaderIs(req.res, "Cache-Control", <<"public, max-age=31536000, immutable">>)
  /\ HeaderIs(req.res, "Access-Control-Allow-Origin", <<"*">>)
  /\ req.res.text = <<>>
  /\ Len(req.res.sent) <= Len(req.up.body)
  /\ req.res.sent = SubSeq(req.up.body, 1, Len(req.res.sent))
  /\ req.res.ended => req.res.sent = req.up.body

\* C5, as stated: on a success answer the Content-Type is the upstream
\* content-type header when that header is present, otherwise the default of
\* the resolved kind; status 200, the two fixed headers, the upstream body.
C5_AsStated ==
  Answered =>
    /\ StreamsUpstreamBody
    /\ HeaderIs(req.res, "Content-Type",
                IF req.up.ct.def THEN req.up.ct.s ELSE KindDefault(req.isVideo))

\* C5, amended: on a success answer the Content-Type is the upstream
\* content-type header when that header is present and not empty, otherwise
\* the default of the resolved kind; status 200, the two fixed headers, the
\* upstream body.
C5_SuccessResponse ==
  Answered =>
    /\ StreamsUpstreamBody
    /\ HeaderIs(req.res, "Content-Type",
                IF req.up.ct.def /\ req.up.ct.s # <<>> THEN req.up.ct.s
                ELSE KindDefault(req.isVideo))

\* C5 witness: a stored video served to the end from an answer with
\* content-type image/png.
C5_Witness ==
  /\ Answered /\ req.phase = "done" /\ req.isVideo
  /\ req.up.ct = Str(<<"image/png">>) /\ req.up.body = Body(MaxChunks)
  /\ req.res.ended /\ req.res.sent = Body(MaxChunks)
  /\ <<"Content-Type", <<"image/png">>>> \in req.res.headers

\* The outcomes a proxy request may complete with.
StreamedAndEnded ==
  req.res.ended /\ req.res.status = 200 /\ req.res.sent = req.up.body /\ req.res.text = <<>>

SingleErrorResponse ==
  req.res.ended /\ req.res.status >= 400 /\ req.res.sent = <<>> /\ req.res.text # <<>>

Terminated == req.res.destroyed /\ ~req.res.ended

\* C6: a proxy request never hangs: as long as it has no outcome a step of
\* its handling is enabled, and once none is, it has exactly one outcome:
\* the whole body streamed and the response ended, one error response before
\* any byte, or the connection terminated; never asset bytes and an error
\* status together.
C6_OneOutcome ==
  req.kind = "cdn" =>
    /\ req.res.sent # <<>> => req.res.status = 200
    /\ \/ ENABLED CdnStep
       \/ /\ StreamedAndEnded /\ ~SingleErrorResponse /\ ~Terminated
       \/ /\ SingleErrorResponse /\ ~StreamedAndEnded /\ ~Terminated
       \/ /\ Terminated /\ ~StreamedAndEnded /\ ~SingleErrorResponse

UniqueIdentifiers ==
  \A i, j \in 1..Len(media) : i # j => media[i].publicId # media[j].publicId

\* C7: after every step no two records have the same identifier, and a
\* record that stays in the store keeps its identifier and its kind.
C7_UniqueImmutable ==
  [][/\ UniqueIdentifiers'
     /\ \A i \in 1..Len(media), j \in 1..Len(media') :
          media[i].id = media'[j].id =>
            /\ media[i].publicId = media'[j].publicId
            /\ media[i].resourceType = media'[j].resourceType]_vars

DeleteSucceeds ==
  /\ req.kind = "delete" /\ req.phase = "removing"
  /\ req'.phase = "done" /\ req'.status = 200

\* C8: right after a delete that answers success, no lookup by the deleted
\* record's identifier finds a record, and the stats count one record less
\* and its bytes less.
C8_DeletedNotFound ==
  [][DeleteSucceeds =>
       /\ \A j \in 1..Len(media') : media'[j].publicId # req.doc.publicId
       /\ Stats(media').totalMedia = Stats(media).totalMedia - 1
       /\ Stats(media').totalSize = Stats(media).totalSize - req.doc.size]_vars

\* C9: a step of POST /upload that answers success has created exactly one
\* record, and the url it returns is matched by the route /cdn/:publicId
\* with that record's identifier as the parameter and is not the origin's
\* direct link; every other step of an upload, a failure at the origin
\* included, leaves the store as it is.
C9_ReturnsProxyPath ==
  [][req'.kind = "upload" =>
       IF req'.phase = "done" /\ req'.res.success
       THEN /\ media' = Append(media, media'[Len(media')])
            /\ req'.res.url # media'[Len(media')].secureUrl
            /\ CdnRouteMatches(req'.res.url)
            /\ CdnParam(req'.res.url) = media'[Len(media')].publicId
       ELSE media' = media]_vars

HasAsset(doc) == AssetOf(doc) \in cloud

DeleteInFlight == req.kind = "delete" /\ req.phase # "done"

DeleteAnswered == req.kind = "delete" /\ req.phase = "done"

\* C10, as stated: the asset is removed first and the record second; a
\* delete that answers an error has removed no record and no asset of a
\* record still in the store; with no delete in flight every record in the
\* store has its asset at the origin.
C10_AsStated ==
  /\ (req.kind = "delete" /\ req.phase = "removing")
       => req.doc \in {media[i] : i \in 1..Len(media)} /\ ~HasAsset(req.doc)
  /\ (DeleteAnswered /\ req.status >= 400)
       => /\ media = req.before.media
          /\ \A i \in 1..Len(media) : AssetOf(media[i]) \in req.before.cloud => HasAsset(media[i])
  /\ ~DeleteInFlight => \A i \in 1..Len(media) : HasAsset(media[i])

\* C10, amended: the asset is removed first and the record second; a delete
\* that answers 404, or 500 because the lookup or the removal at the origin
\* failed, has removed nothing; one that answers 500 because the removal of
\* the record failed has removed the asset and left the record; one that
\* answers success has removed both.
C10_DeleteOutcomes ==
  req.kind = "delete" =>
    LET removedAtOrigin == cloud = req.before.cloud \ {AssetOf(req.doc)}
        untouched == media = req.before.media /\ cloud = req.before.cloud
    IN  /\ req.phase = "destroying" => untouched
        /\ req.phase = "removing" => media = req.before.media /\ removedAtOrigin
        /\ (DeleteAnswered /\ req.cause = "null") => req.status = 404 /\ untouched
        /\ (DeleteAnswered /\ req.cause \in {"find", "destroy"}) => req.status = 500 /\ untouched
        /\ (DeleteAnswered /\ req.cause = "remove")
             => req.status = 500 /\ media = req.before.media /\ removedAtOrigin
        /\ (DeleteAnswered /\ req.cause = "none")
             => /\ req.status = 200 /\ removedAtOrigin
                /\ media = Without(req.before.media, req.id)
        /\ DeleteAnswered => req.status \in {200, 404, 500}

\* C10 witness: a delete answered 500 after the asset was removed: the
\* record is still in the store, its asset is gone, and the origin still
\* holds the asset of the same identifier and the other kind.
C10_Witness ==
  /\ DeleteAnswered /\ req.cause = "remove" /\ req.status = 500
  /\ req.doc \in {media[i] : i \in 1..Len(media)}
  /\ ~HasAsset(req.doc)
  /\ \E a \in cloud : a.publicId = req.doc.publicId

====
